---------------------------- MODULE Spec2Model ----------------------------
(***************************************************************************)
(* binspect: the hex dump renderer write_internal, the byte extractors     *)
(* as_bytes / as_bytes_with_len and the stdout / stderr entry points       *)
(* print_internal / eprint_internal (src/src/lib.rs).                      *)
(*                                                                         *)
(* Text is a sequence of pieces: the literal segments of the format        *)
(* strings, one piece per formatted digit and one piece per caller label.  *)
(* Every write!/writeln! of write_internal is one step of the calling      *)
(* thread; the sink either accepts the pieces or returns an error.         *)
(***************************************************************************)
EXTENDS Integers, Sequences, FiniteSets, TLC

(* ------------------------------ bounds --------------------------------- *)

\* size in bytes of the largest value dumped into a sink that keeps everything
MaxLen == 33

\* size in bytes of the value two threads dump concurrently
PairLen == 17

\* size in bytes of the long value (its last row starts at offset 0x10000)
LongLen == 65537

Threads == {"t1", "t2"}

NoThread == "none"

\* the errors a sink may return from a write
Errors == {"BrokenPipe", "WriteZero"}

(* --------------------------- program constants ------------------------- *)

\* let width = 16;
width == 16

\* let center = width / 2;
center == width \div 2

(* ----------------------------- the memory ------------------------------ *)

\* the byte stored at an address (whatever the process memory holds there)
Mem(a) == (a * 37 + 11) % 256

\* a value the caller inspects: where it lives, its size_of_val, its
\* type_name and the stringify!-ed source expression
Value(addr, size, ty, src) == [addr |-> addr, size |-> size, ty |-> ty, src |-> src]

EmptyStr == Value(4081, 0, "str", "*\"\"")

AbcStr == Value(24, 3, "str", "*s")

StrRef == Value(65520, 16, "&str", "\"A = B\"")

StructVal == Value(240, 9, "demo::S<'_>", "S { a: 1, b: &x }")

SmallValues == {EmptyStr, AbcStr, StrRef, StructVal, Value(4090, MaxLen, "[u8]", "*buf")}

PairValues == {Value(250, PairLen, "[u8]", "*shared")}

LongValues == {Value(1048570, LongLen, "[u8]", "*big")}

(* --------------------------- Byte Extractor ---------------------------- *)

\* as_bytes_with_len(t, len): the slice (pointer, length) over t's storage
as_bytes_with_len(t, len) == [ptr |-> t.addr, len |-> len]

\* as_bytes taking the size of the reference, not of the value
AsBytesOfRef(t) == as_bytes_with_len(t, 8)

\* as_bytes(t): as_bytes_with_len(t, size_of_val(t))
as_bytes(t) == as_bytes_with_len(t, t.size)

\* bytes[i], i counted from 0
ByteAt(bytes, i) == Mem(bytes.ptr + i)

\* the record! macro: the Record handed to the renderer
Record(t, bs, isSized) ==
    [reference |-> t.addr, type_name |-> t.ty, bytes |-> bs,
     sized |-> isSized, source |-> t.src]

(* ------------------------------ formatting ----------------------------- *)

HexDigits == <<"0", "1", "2", "3", "4", "5", "6", "7",
               "8", "9", "a", "b", "c", "d", "e", "f">>

RECURSIVE Hex(_)
\* the lower-case hexadecimal digits of n, most significant first
Hex(n) == IF n < 16 THEN <<HexDigits[n + 1]>>
          ELSE Append(Hex(n \div 16), HexDigits[(n % 16) + 1])

RECURSIVE ZeroPad(_, _)
\* the 0 flag with a minimum field width: pads on the left, never truncates
ZeroPad(s, w) == IF Len(s) >= w THEN s ELSE ZeroPad(<<"0">> \o s, w)

\* {:04x} and {:02x}
LowerHex(n, w) == ZeroPad(Hex(n), w)

\* {:p}
Pointer(a) == <<"0x">> \o Hex(a)

\* the header with the labels in the wrong order
HeaderSwapped(r, absolute) ==
    IF absolute
    THEN Pointer(r.reference) \o <<" : ", r.source, " = ", r.type_name, "\n">>
    ELSE <<"-----+ ">> \o Pointer(r.reference)
             \o <<": ", r.source, " = ", r.type_name, "\n">>

\* writeln!(w, "{:p} : {} = {}", ...) / writeln!(w, "-----+ {:p}: {} = {}", ...)
Header(r, absolute) ==
    IF absolute
    THEN Pointer(r.reference) \o <<" : ", r.type_name, " = ", r.source, "\n">>
    ELSE <<"-----+ ">> \o Pointer(r.reference)
             \o <<": ", r.type_name, " = ", r.source, "\n">>

\* the relative prefix in a field of exactly three digits
RelPrefixNarrow(i) == LowerHex(i, 3) \o <<" |">>

\* write!(w, "{:04x} |", i)
RelPrefix(i) == LowerHex(i, 4) \o <<" |">>

\* the absolute prefix without the .add(i)
AbsPrefixBase(r, i) == Pointer(r.reference) \o <<" |">>

\* write!(w, "{:p} |", (record.reference as *const u8).add(i))
AbsPrefix(r, i) == Pointer(r.reference + i) \o <<" |">>

\* write!(w, " :")
Separator == <<" :">>

\* write!(w, " {:02x}", x)
ByteToken(x) == <<" ">> \o LowerHex(x, 2)

\* writeln!(w)
LineBreak == <<"\n">>

(* -------------------------- the loop conditions ------------------------ *)

\* if i % width == 0
StartsRow(i) == i % width = 0

\* the row break without the test for the first row
NotFirstAlways(i) == TRUE

\* if i != 0
NotFirst(i) == i # 0

\* the midpoint test against the row width
AtCenterWide(i) == i % width = 0

\* the midpoint test one byte late
AtCenterLate(i) == i % center = 1

\* else if i % center == 0
AtCenter(i) == i % center = 0

\* the final line break written for an empty view too
NonEmptyAlways(bytes) == TRUE

\* if !record.bytes.is_empty()
NonEmpty(bytes) == bytes.len # 0

(* ------------------------------ the sinks ------------------------------ *)

Streams == {"stdout", "stderr"}

\* what a write to a sink can return: io::stdout(), io::stderr() and a
\* caller's writer "file" may fail; the in-memory writers "vec" (keeps
\* everything) and "tail" (keeps the current line only) accept every write
Outcomes(w) == IF w \in {"vec", "tail"} THEN {"ok"} ELSE {"ok"} \cup Errors

RECURSIVE AfterLastBreak(_)
\* the pieces that follow the last line break
AfterLastBreak(s) ==
    IF s = <<>> THEN <<>>
    ELSE IF s[Len(s)] = "\n" THEN <<>>
    ELSE Append(AfterLastBreak(SubSeq(s, 1, Len(s) - 1)), s[Len(s)])

\* the data of a caller's writer after it accepted the pieces
Accept(w, data, pieces) ==
    IF w = "tail" THEN AfterLastBreak(data \o pieces) ELSE data \o pieces

\* the pieces as thread t writes them to a standard stream
Tagged(t, pieces) == [k \in 1..Len(pieces) |-> [by |-> t, p |-> pieces[k]]]

(* ------------------------------ the state ------------------------------ *)

VARIABLES
    call,      \* call[t]: the entry point thread t calls, with its arguments
    pc,        \* pc[t]: where thread t is in write_internal
    i,         \* i[t]: the loop index of record.bytes.iter().enumerate()
    result,    \* result[t]: how the call of thread t ended
    lock,      \* lock[s]: the thread that holds the lock of stream s
    stream,    \* stream[s]: the pieces written to stream s, with their writer
    buf,       \* buf[t]: the data of the writer thread t passes to write_internal
    attempts,  \* attempts[t]: the writes thread t has issued to its sink
    errlog     \* errlog[t]: the errors the sink has returned to thread t

vars == <<call, pc, i, result, lock, stream, buf, attempts, errlog>>

NoCall == [fn |-> "none"]

NoResult == [kind |-> "none"]

\* the sink of an entry point
EntryPoints == {[fn |-> "print_internal", w |-> "stdout"],
                [fn |-> "eprint_internal", w |-> "stderr"],
                [fn |-> "write_internal", w |-> "vec"],
                [fn |-> "write_internal", w |-> "file"]}

\* the byte views a caller can take of v: the binspect!(v) arm (as_bytes,
\* sized = true) and the binspect!(v, len) arm (as_bytes_with_len, sized =
\* false) with a length inside the storage
Views(v) ==
    {Record(v, as_bytes(v), TRUE)}
        \cup {Record(v, as_bytes_with_len(v, n), FALSE) : n \in 0..v.size}

\* the calls of the entry points on the values vs
Calls(vs, entries, modes) ==
    {[fn |-> e.fn, w |-> e.w, record |-> r, absolute |-> a] :
        e \in entries, r \in UNION {Views(v) : v \in vs}, a \in modes}

Start(c1, c2) ==
    /\ call = ("t1" :> c1) @@ ("t2" :> c2)
    /\ pc = ("t1" :> IF c1 = NoCall THEN "idle" ELSE "call")
                @@ ("t2" :> IF c2 = NoCall THEN "idle" ELSE "call")
    /\ i = [t \in Threads |-> 0]
    /\ result = [t \in Threads |-> NoResult]
    /\ lock = [s \in Streams |-> NoThread]
    /\ stream = [s \in Streams |-> <<>>]
    /\ buf = [t \in Threads |-> <<>>]
    /\ attempts = [t \in Threads |-> 0]
    /\ errlog = [t \in Threads |-> <<>>]

\* one thread dumps one value
Init ==
    \E c \in Calls(SmallValues, EntryPoints, BOOLEAN) : Start(c, NoCall)

\* two threads dump the same value: thread 1 all of it, relative; thread 2
\* any view of it, either mode
InitPair ==
    \E v \in PairValues :
        \E c1 \in {c \in Calls({v}, EntryPoints, {FALSE}) : c.record.sized /\ c.w # "file"} :
            \E c2 \in {c \in Calls({v}, EntryPoints, BOOLEAN) : c.w # "file"} :
                Start(c1, c2)

\* one thread dumps one value, the long value included
InitLong ==
    \/ Init
    \/ \E v \in LongValues :
           Start([fn |-> "write_internal", w |-> "tail",
                  record |-> Record(v, as_bytes(v), TRUE), absolute |-> FALSE], NoCall)

(* --------------------------- the entry points -------------------------- *)

\* a lock that excludes nobody
CanLockAlways(s) == TRUE

\* io::stdout().lock() / io::stderr().lock() returns once no thread holds it
CanLock(s) == lock[s] = NoThread

\* print_internal: write_internal(io::stdout().lock(), record, absolute)
print_internal(t) ==
    /\ pc[t] = "call"
    /\ call[t].fn = "print_internal"
    /\ CanLock("stdout")
    /\ lock' = [lock EXCEPT !["stdout"] = t]
    /\ pc' = [pc EXCEPT ![t] = "header"]
    /\ UNCHANGED <<call, i, result, stream, buf, attempts, errlog>>

\* eprint_internal: write_internal(io::stderr().lock(), record, absolute)
eprint_internal(t) ==
    /\ pc[t] = "call"
    /\ call[t].fn = "eprint_internal"
    /\ CanLock("stderr")
    /\ lock' = [lock EXCEPT !["stderr"] = t]
    /\ pc' = [pc EXCEPT ![t] = "header"]
    /\ UNCHANGED <<call, i, result, stream, buf, attempts, errlog>>

\* write_internal called with the caller's own writer (write_binspect!)
write_internal(t) ==
    /\ pc[t] = "call"
    /\ call[t].fn = "write_internal"
    /\ pc' = [pc EXCEPT ![t] = "header"]
    /\ UNCHANGED <<call, i, result, lock, stream, buf, attempts, errlog>>

(* ---------------------------- write_internal --------------------------- *)

\* the writer w is dropped when write_internal returns: a StdoutLock or
\* StderrLock releases its stream
Dropped(t) == [s \in Streams |-> IF s = call[t].w /\ lock[s] = t THEN NoThread ELSE lock[s]]

\* a write whose error is dropped (let _ = write!(..))
ContinuesAlways(outcome) == TRUE

\* the ? after every write!/writeln!: go on only if the write returned Ok
Continues(outcome) == outcome = "ok"

\* what the caller of the entry point gets when a write returned Err(e):
\* write_internal returns it, print_internal / eprint_internal unwrap it
Failure(fn, e) ==
    IF fn = "write_internal" THEN [kind |-> "Err", err |-> e]
    ELSE [kind |-> "Panic", err |-> e]

\* one write!/writeln! of thread t: the sink accepts the pieces or returns
\* an error (a refused write leaves the sink's data as it was)
Emit(t, pieces, nextpc, nexti) ==
    \E outcome \in Outcomes(call[t].w) :
        /\ attempts' = [attempts EXCEPT ![t] = @ + 1]
        /\ IF outcome = "ok"
           THEN /\ errlog' = errlog
                /\ IF call[t].w \in Streams
                   THEN /\ stream' = [stream EXCEPT ![call[t].w] = @ \o Tagged(t, pieces)]
                        /\ buf' = buf
                   ELSE /\ buf' = [buf EXCEPT ![t] = Accept(call[t].w, @, pieces)]
                        /\ stream' = stream
           ELSE /\ errlog' = [errlog EXCEPT ![t] = Append(@, outcome)]
                /\ UNCHANGED <<stream, buf>>
        /\ IF Continues(outcome)
           THEN /\ pc' = [pc EXCEPT ![t] = nextpc]
                /\ i' = [i EXCEPT ![t] = nexti]
                /\ UNCHANGED <<result, lock>>
           ELSE /\ pc' = [pc EXCEPT ![t] = "done"]
                /\ result' = [result EXCEPT ![t] = Failure(call[t].fn, outcome)]
                /\ lock' = Dropped(t)
                /\ i' = i
        /\ UNCHANGED call

\* the loop has a next byte
HasNext(t) == pc[t] = "iter" /\ i[t] < call[t].record.bytes.len

\* the header line
WriteHeader(t) ==
    /\ pc[t] = "header"
    /\ Emit(t, Header(call[t].record, call[t].absolute), "iter", i[t])

\* writeln!(w)? between two rows
WriteRowBreak(t) ==
    /\ HasNext(t)
    /\ StartsRow(i[t])
    /\ NotFirst(i[t])
    /\ Emit(t, LineBreak, "prefix", i[t])

\* the row prefix, after the row break or at the first byte
WriteRowPrefix(t) ==
    /\ \/ pc[t] = "prefix"
       \/ HasNext(t) /\ StartsRow(i[t]) /\ ~NotFirst(i[t])
    /\ Emit(t, IF call[t].absolute THEN AbsPrefix(call[t].record, i[t])
                                  ELSE RelPrefix(i[t]),
            "byte", i[t])

\* the midpoint separator
WriteSeparator(t) ==
    /\ HasNext(t)
    /\ ~StartsRow(i[t])
    /\ AtCenter(i[t])
    /\ Emit(t, Separator, "byte", i[t])

\* the byte token; the loop moves on to the next byte
WriteByte(t) ==
    /\ \/ pc[t] = "byte"
       \/ HasNext(t) /\ ~StartsRow(i[t]) /\ ~AtCenter(i[t])
    /\ Emit(t, ByteToken(ByteAt(call[t].record.bytes, i[t])), "iter", i[t] + 1)

\* the line break after the last row
WriteFinalBreak(t) ==
    /\ pc[t] = "iter"
    /\ i[t] = call[t].record.bytes.len
    /\ NonEmpty(call[t].record.bytes)
    /\ Emit(t, LineBreak, "ret", i[t])

\* Ok(()): write_internal returns it, print_internal / eprint_internal
\* unwrap it
ReturnOk(t) ==
    /\ \/ pc[t] = "ret"
       \/ /\ pc[t] = "iter"
          /\ i[t] = call[t].record.bytes.len
          /\ ~NonEmpty(call[t].record.bytes)
    /\ pc' = [pc EXCEPT ![t] = "done"]
    /\ result' = [result EXCEPT ![t] =
                     IF call[t].fn = "write_internal" THEN [kind |-> "Ok"]
                     ELSE [kind |-> "Unit"]]
    /\ lock' = Dropped(t)
    /\ UNCHANGED <<call, i, stream, buf, attempts, errlog>>

Next ==
    \E t \in Threads :
        \/ print_internal(t)
        \/ eprint_internal(t)
        \/ write_internal(t)
        \/ WriteHeader(t)
        \/ WriteRowBreak(t)
        \/ WriteRowPrefix(t)
        \/ WriteSeparator(t)
        \/ WriteByte(t)
        \/ WriteFinalBreak(t)
        \/ ReturnOk(t)

Spec == Init /\ [][Next]_vars

SpecPair == InitPair /\ [][Next]_vars

SpecLong == InitLong /\ [][Next]_vars

(* ------------------------ reading a dump's text ------------------------ *)

\* the pieces thread t has got into its sink, in order
Out(t) ==
    IF call[t].w \in Streams
    THEN LET mine == SelectSeq(stream[call[t].w], LAMBDA e : e.by = t)
         IN  [k \in 1..Len(mine) |-> mine[k].p]
    ELSE buf[t]

\* the sink of thread t keeps everything it accepts
KeepsAll(t) == call[t] # NoCall /\ call[t].w # "tail"

\* the call of thread t returned without an error
Succeeded(t) == result[t].kind \in {"Ok", "Unit"}

\* the place of the first line break of o, 0 if it has none
HeaderEnd(o) ==
    IF \E k \in 1..Len(o) : o[k] = "\n"
    THEN CHOOSE k \in 1..Len(o) : o[k] = "\n" /\ \A j \in 1..(k - 1) : o[j] # "\n"
    ELSE 0

\* the header line of o, without its line break
HeaderLine(o) == SubSeq(o, 1, HeaderEnd(o) - 1)

\* what follows the header line
Body(o) == SubSeq(o, HeaderEnd(o) + 1, Len(o))

RECURSIVE Lines(_)
\* the lines of a text; a line break ends a line, so a text that ends with
\* a line break has no empty last line
Lines(b) ==
    IF b = <<>> THEN <<>>
    ELSE LET e == HeaderEnd(b)
         IN  IF e = 0 THEN <<b>>
             ELSE <<SubSeq(b, 1, e - 1)>> \o Lines(SubSeq(b, e + 1, Len(b)))

IsHexDigit(p) == \E k \in 1..16 : HexDigits[k] = p

DigitValue(p) == (CHOOSE k \in 1..16 : HexDigits[k] = p) - 1

RECURSIVE HexValue(_)
\* the number a sequence of hexadecimal digits denotes
HexValue(d) ==
    IF d = <<>> THEN 0
    ELSE 16 * HexValue(SubSeq(d, 1, Len(d) - 1)) + DigitValue(d[Len(d)])

\* a byte token starts at place k of b: a space and two hexadecimal digits
TokenAt(b, k) ==
    /\ b[k] = " "
    /\ k + 2 <= Len(b)
    /\ IsHexDigit(b[k + 1])
    /\ IsHexDigit(b[k + 2])

\* the places of b where a byte token starts
Tokens(b) == {k \in 1..Len(b) : TokenAt(b, k)}

\* the index, from 0, of the byte token that starts at place k
TokenIndex(b, k) == Cardinality({q \in Tokens(b) : q < k})

\* how often piece p occurs in b
Count(b, p) == Cardinality({k \in 1..Len(b) : b[k] = p})

\* ceil(n / width)
CeilRows(n) == (n + width - 1) \div width

(* ------------------------------- claims -------------------------------- *)

\* C1: a dump of L >= 1 bytes that every write of which was accepted has
\* ceil(L / 16) rows (lines after the header line, the last one ended by the
\* final line break) and L byte tokens, in either addressing mode; a length
\* that is a multiple of 16 gives no extra empty row.
C1_RowsAndTokens ==
    \A t \in Threads :
        (KeepsAll(t) /\ Succeeded(t) /\ call[t].record.bytes.len >= 1) =>
            LET b == Body(Out(t))
                L == call[t].record.bytes.len
            IN  /\ b[Len(b)] = "\n"
                /\ Len(Lines(b)) = CeilRows(L)
                /\ \A r \in 1..Len(Lines(b)) : Lines(b)[r] # <<>>
                /\ Cardinality(Tokens(b)) = L

\* C1 witness: a finished dump of 32 bytes, with two rows
C1_Witness ==
    \E t \in Threads :
        /\ KeepsAll(t) /\ Succeeded(t)
        /\ call[t].record.bytes.len = 2 * width
        /\ Len(Lines(Body(Out(t)))) = 2
        /\ Cardinality(Tokens(Body(Out(t)))) = 2 * width

\* C2: a dump of 0 bytes whose writes are accepted succeeds, and its output
\* is the header line with its line break and nothing else: no row prefix,
\* no midpoint separator, no second line break.
C2_EmptyView ==
    \A t \in Threads :
        (KeepsAll(t) /\ pc[t] = "done" /\ errlog[t] = <<>>
            /\ call[t].record.bytes.len = 0) =>
            LET o == Out(t)
            IN  /\ Succeeded(t)
                /\ Len(o) >= 2
                /\ HeaderEnd(o) = Len(o)
                /\ Count(o, "\n") = 1
                /\ Count(o, " |") = 0
                /\ Count(o, " :") = 0
                /\ Tokens(o) = {}
                /\ attempts[t] = 1

\* C2 witness: a finished dump of 0 bytes
C2_Witness ==
    \E t \in Threads :
        /\ KeepsAll(t) /\ Succeeded(t)
        /\ call[t].record.bytes.len = 0
        /\ Out(t) # <<>>

\* C3: at every moment of a rendering, the byte token with index j (from 0,
\* over the whole dump) is immediately preceded by the separator " :" iff
\* j mod 16 = 8, and a separator stands nowhere else: a separator that is
\* the last piece written waits for the byte with such an index.
C3_SeparatorPlaces ==
    \A t \in Threads :
        KeepsAll(t) =>
            LET b == Body(Out(t))
            IN  /\ \A k \in Tokens(b) :
                       (k > 1 /\ b[k - 1] = " :") <=> (TokenIndex(b, k) % width = center)
                /\ \A k \in 1..Len(b) :
                       b[k] = " :" =>
                           IF k = Len(b)
                           THEN Cardinality(Tokens(b)) % width = center
                           ELSE TokenAt(b, k + 1)

\* C3 witness: a finished dump of 17 bytes: one separator in row 0, before
\* the 9th byte token, and none in row 1
C3_Witness ==
    \E t \in Threads :
        /\ KeepsAll(t) /\ Succeeded(t)
        /\ call[t].record.bytes.len = width + 1
        /\ Count(Lines(Body(Out(t)))[1], " :") = 1
        /\ Count(Lines(Body(Out(t)))[2], " :") = 0

\* the separators of a row and the byte tokens of a row
RowSeparators(row) == Count(row, " :")

RowTokens(row) == Cardinality(Tokens(row))

\* C4 as stated: every row of every finished dump has exactly one midpoint
\* separator, immediately before its 9th byte token.
C4_OneSeparatorPerRow ==
    \A t \in Threads :
        (KeepsAll(t) /\ Succeeded(t)) =>
            LET rows == Lines(Body(Out(t)))
            IN  \A r \in 1..Len(rows) :
                    /\ RowSeparators(rows[r]) = 1
                    /\ \E k \in Tokens(rows[r]) :
                           TokenIndex(rows[r], k) = center /\ rows[r][k - 1] = " :"

\* C4 as amended: a row of a finished dump with 9 to 16 byte tokens has
\* exactly one midpoint separator, immediately before its 9th byte token; a
\* row with 1 to 8 byte tokens has none.
C4_SeparatorInLongRows ==
    \A t \in Threads :
        (KeepsAll(t) /\ Succeeded(t)) =>
            LET rows == Lines(Body(Out(t)))
            IN  \A r \in 1..Len(rows) :
                    IF RowTokens(rows[r]) > center
                    THEN /\ RowSeparators(rows[r]) = 1
                         /\ \E k \in Tokens(rows[r]) :
                                TokenIndex(rows[r], k) = center /\ rows[r][k - 1] = " :"
                    ELSE RowSeparators(rows[r]) = 0

\* C4 witness: a finished dump whose first row has 16 byte tokens and one
\* separator and whose last row has 8 byte tokens and no separator
C4_Witness ==
    \E t \in Threads :
        /\ KeepsAll(t) /\ Succeeded(t)
        /\ Len(Lines(Body(Out(t)))) = 2
        /\ RowTokens(Lines(Body(Out(t)))[1]) = width
        /\ RowSeparators(Lines(Body(Out(t)))[1]) = 1
        /\ RowTokens(Lines(Body(Out(t)))[2]) = center
        /\ RowSeparators(Lines(Body(Out(t)))[2]) = 0

\* what the entry point of thread t hands its caller for the error e
Surfaced(t, e) ==
    IF call[t].fn = "write_internal" THEN result[t] = [kind |-> "Err", err |-> e]
    ELSE result[t] = [kind |-> "Panic", err |-> e]

\* the state of thread t after its sink returned an error, and before
ErrorReachesCaller(t) ==
    /\ errlog[t] = <<>> => result[t].kind \in {"none", "Ok", "Unit"}
    /\ errlog[t] # <<>> =>
           /\ Len(errlog[t]) = 1
           /\ pc[t] = "done"
           /\ Surfaced(t, errlog[t][1])
    /\ Succeeded(t) => errlog[t] = <<>> /\ pc[t] = "done"

\* a step after the sink of thread t returned an error
NoLaterWrite(t) ==
    errlog[t] # <<>> =>
        /\ attempts'[t] = attempts[t]
        /\ errlog'[t] = errlog[t]
        /\ Out(t)' = Out(t)
        /\ result'[t] = result[t]

\* C5: when a write of a dump fails, whichever write it is, the rendering
\* stops there: the thread issues no later write to the sink and does not
\* retry, the call has ended, and the error the sink returned is the one the
\* caller gets (Err from write_internal, a panic carrying it from
\* print_internal / eprint_internal); a call that ended well saw no error.
C5_ErrorsPropagate ==
    /\ [](\A t \in Threads : call[t] # NoCall => ErrorReachesCaller(t))
    /\ [][\A t \in Threads : call[t] # NoCall => NoLaterWrite(t)]_vars

\* C5 witness: the final line break of a dump to stdout was refused (the
\* 1 + 3 + 1 + 1 - th write of a 3-byte dump) and print_internal panicked
C5_Witness ==
    \E t \in Threads :
        /\ call[t].fn = "print_internal"
        /\ call[t].record.bytes.len = 3
        /\ attempts[t] = 6
        /\ errlog[t] = <<"BrokenPipe">>
        /\ result[t] = [kind |-> "Panic", err |-> "BrokenPipe"]
        /\ lock["stdout"] = NoThread

\* the header line of o is written in relative mode for the record r
RelativeHeader(o, r) ==
    LET h == HeaderLine(o)
        n == Len(h)
    IN  /\ n >= 7
        /\ h[1] = "-----+ "
        /\ h[2] = "0x"
        /\ \A k \in 3..(n - 4) : IsHexDigit(h[k])
        /\ HexValue(SubSeq(h, 3, n - 4)) = r.reference
        /\ h[n - 3] = ": "
        /\ h[n - 2] = r.type_name
        /\ h[n - 1] = " = "
        /\ h[n] = r.source

\* the header line of o is written in absolute mode for the record r
AbsoluteHeader(o, r) ==
    LET h == HeaderLine(o)
        n == Len(h)
    IN  /\ n >= 6
        /\ h[1] = "0x"
        /\ \A k \in 2..(n - 4) : IsHexDigit(h[k])
        /\ HexValue(SubSeq(h, 2, n - 4)) = r.reference
        /\ h[n - 3] = " : "
        /\ h[n - 2] = r.type_name
        /\ h[n - 1] = " = "
        /\ h[n] = r.source

\* C8: at every moment of a rendering whose first write was accepted, the
\* output starts with the header line, written once (one "-----+ " in
\* relative mode) and before every row prefix and byte token; in relative
\* mode it reads "-----+ {address}: {type_label} = {source_label}" with the
\* two labels exactly as the caller gave them.
C8_HeaderFirst ==
    \A t \in Threads :
        (KeepsAll(t) /\ attempts[t] >= 1 /\ ~(attempts[t] = 1 /\ errlog[t] # <<>>)) =>
            LET o == Out(t)
            IN  /\ HeaderEnd(o) >= 1
                /\ Count(HeaderLine(o), " |") = 0
                /\ Tokens(HeaderLine(o)) = {}
                /\ IF call[t].absolute
                   THEN AbsoluteHeader(o, call[t].record) /\ Count(o, " : ") = 1
                   ELSE RelativeHeader(o, call[t].record) /\ Count(o, "-----+ ") = 1
                /\ Count(o, call[t].record.source) = 1
                /\ Count(o, call[t].record.type_name) = 1

\* C8 witness: a finished relative dump of two rows whose source label
\* holds " = " and quotes
C8_Witness ==
    \E t \in Threads :
        /\ KeepsAll(t) /\ Succeeded(t) /\ ~call[t].absolute
        /\ call[t].record.source = "\"A = B\""
        /\ call[t].record.bytes.len = width
        /\ HeaderLine(Out(t)) = <<"-----+ ", "0x", "f", "f", "f", "0",
                                   ": ", "&str", " = ", "\"A = B\"">>

\* the rows of thread t's dump that its sink still holds, each with its
\* index from 0: all of them in a sink that keeps everything; in a sink that
\* keeps the current line, the row of the byte written last (or, right after
\* a row prefix, of the byte written next)
HeldRows(t) ==
    IF KeepsAll(t)
    THEN LET rows == Lines(Body(Out(t)))
         IN  {<<r - 1, rows[r]>> : r \in 1..Len(rows)}
    ELSE IF buf[t] = <<>> \/ attempts[t] = 1 THEN {}
         ELSE {<<(IF pc[t] = "byte" THEN i[t] ELSE i[t] - 1) \div width, buf[t]>>}

\* the place of the first " |" of a row, 0 if it has none
BarPlace(row) ==
    IF \E k \in 1..Len(row) : row[k] = " |"
    THEN CHOOSE k \in 1..Len(row) : row[k] = " |" /\ \A j \in 1..(k - 1) : row[j] # " |"
    ELSE 0

\* what stands before the first " |" of a row
PrefixDigits(row) == SubSeq(row, 1, BarPlace(row) - 1)

\* what follows the first " |" of a row
AfterPrefix(row) == SubSeq(row, BarPlace(row) + 1, Len(row))

\* the digits d are the offset 16 * r in lower-case hexadecimal
ShowsOffset(d, r) ==
    /\ d # <<>>
    /\ \A k \in 1..Len(d) : IsHexDigit(d[k])
    /\ HexValue(d) = width * r

\* C6 as stated: in relative mode row r of every dump starts with the
\* offset 16 * r as exactly 4 lower-case zero-padded hexadecimal digits,
\* followed by " |".
C6_FourDigitOffsets ==
    \A t \in Threads :
        (call[t] # NoCall /\ ~call[t].absolute) =>
            \A row \in HeldRows(t) :
                /\ BarPlace(row[2]) >= 2
                /\ ShowsOffset(PrefixDigits(row[2]), row[1])
                /\ Len(PrefixDigits(row[2])) = 4

\* C6 as amended: in relative mode row r of every dump starts with the
\* offset 16 * r in lower-case hexadecimal, zero-padded to at least 4
\* digits and followed by " |": exactly 4 digits while the offset is below
\* 0x10000 (the rows of the first 65536 bytes), and from there on the 5 or
\* more digits of the offset, without a leading zero.
C6_PaddedOffsets ==
    \A t \in Threads :
        (call[t] # NoCall /\ ~call[t].absolute) =>
            \A row \in HeldRows(t) :
                LET d == PrefixDigits(row[2])
                IN  /\ BarPlace(row[2]) >= 2
                    /\ ShowsOffset(d, row[1])
                    /\ Len(d) >= 4
                    /\ width * row[1] < 65536 => Len(d) = 4
                    /\ width * row[1] >= 65536 => Len(d) > 4 /\ d[1] # "0"

\* C6 witness: a finished relative dump with the rows 0000, 0010 and 0020
C6_Witness ==
    \E t \in Threads :
        /\ KeepsAll(t) /\ Succeeded(t) /\ ~call[t].absolute
        /\ Len(Lines(Body(Out(t)))) = 3
        /\ PrefixDigits(Lines(Body(Out(t)))[1]) = <<"0", "0", "0", "0">>
        /\ PrefixDigits(Lines(Body(Out(t)))[2]) = <<"0", "0", "1", "0">>
        /\ PrefixDigits(Lines(Body(Out(t)))[3]) = <<"0", "0", "2", "0">>

\* the byte values a text shows, in order: its byte tokens read back
ShownBytes(o) ==
    LET b == Body(o)
        at(j) == CHOOSE k \in Tokens(b) : TokenIndex(b, k) = j
    IN  [j \in 1..Cardinality(Tokens(b)) |->
            HexValue(<<b[at(j - 1) + 1], b[at(j - 1) + 2]>>)]

\* threads t and u have both finished, without an error, dumps of the same
\* value into sinks that keep everything
BothDumped(t, u) ==
    /\ t # u
    /\ KeepsAll(t) /\ KeepsAll(u)
    /\ Succeeded(t) /\ Succeeded(u)
    /\ call[t].record.reference = call[u].record.reference

\* C7: a dump with an explicit length n (as_bytes_with_len, sized = false)
\* shows exactly the n bytes stored from the value's address on, in order;
\* next to a size-inferred dump (as_bytes, sized = true) of the same value
\* its bytes are the first n of that dump's, and with n the size of the
\* value and the same addressing mode the two outputs are the same text.
C7_ExplicitLength ==
    \A t, u \in Threads :
        (BothDumped(t, u) /\ call[t].record.sized /\ ~call[u].record.sized) =>
            LET n == call[u].record.bytes.len
                whole == ShownBytes(Out(t))
                part == ShownBytes(Out(u))
            IN  /\ Len(part) = n
                /\ \A j \in 1..n : part[j] = Mem(call[u].record.reference + j - 1)
                /\ n <= Len(whole)
                /\ part = SubSeq(whole, 1, n)
                /\ (n = Len(whole) /\ call[t].absolute = call[u].absolute)
                       => Out(u) = Out(t)

\* C7 witness: next to the size-inferred dump of the value, a finished dump
\* with an explicit length equal to its size and one with a shorter length
\* that still has a separator
C7_Witness ==
    \E t, u \in Threads :
        /\ BothDumped(t, u) /\ call[t].record.sized /\ ~call[u].record.sized
        /\ ~call[u].absolute
        /\ Out(t) # <<>>
        /\ \/ call[u].record.bytes.len = Len(ShownBytes(Out(t))) /\ Out(u) = Out(t)
           \/ call[u].record.bytes.len = center + 1 /\ Out(u) # Out(t)

\* the row prefix of an absolute dump: the address 0x.. of the row's first
\* byte as {:p} prints it, without leading zeros
ShowsAddress(d, a) ==
    /\ Len(d) >= 2
    /\ d[1] = "0x"
    /\ \A k \in 2..Len(d) : IsHexDigit(d[k])
    /\ HexValue(SubSeq(d, 2, Len(d))) = a
    /\ Len(d) > 2 => d[2] # "0"

\* C9: next to the relative dump of the same bytes, an absolute dump has
\* the header "{address} : {type_label} = {source_label}", as many rows,
\* and row r starts with the address of its first byte (base + 16 * r) as a
\* pointer, followed by " |"; after the prefix every row is the relative
\* dump's row (byte tokens, midpoint separator), and both end with the
\* final line break.
C9_AbsoluteMode ==
    \A t, u \in Threads :
        (BothDumped(t, u) /\ ~call[t].absolute /\ call[u].absolute
            /\ call[t].record.bytes = call[u].record.bytes) =>
            LET rel == Lines(Body(Out(t)))
                abs == Lines(Body(Out(u)))
            IN  /\ AbsoluteHeader(Out(u), call[u].record)
                /\ Len(abs) = Len(rel)
                /\ Count(Out(u), "\n") = Count(Out(t), "\n")
                /\ Out(u)[Len(Out(u))] = "\n"
                /\ \A r \in 1..Len(abs) :
                       /\ BarPlace(abs[r]) >= 2
                       /\ ShowsAddress(PrefixDigits(abs[r]),
                                       call[u].record.reference + width * (r - 1))
                       /\ AfterPrefix(abs[r]) = AfterPrefix(rel[r])

\* C9 witness: a finished absolute dump of two rows next to the relative
\* dump of the same bytes
C9_Witness ==
    \E t, u \in Threads :
        /\ BothDumped(t, u) /\ ~call[t].absolute /\ call[u].absolute
        /\ call[t].record.bytes = call[u].record.bytes
        /\ Len(Lines(Body(Out(u)))) = 2
        /\ PrefixDigits(Lines(Body(Out(u)))[1]) # PrefixDigits(Lines(Body(Out(u)))[2])

\* the pieces of each thread stand together in the stream: from one piece
\* to the next the writer changes at most once per further writer
Contiguous(st) ==
    Cardinality({k \in 1..(Len(st) - 1) : st[k].by # st[k + 1].by})
        < Cardinality({st[k].by : k \in 1..Len(st)}) + 1

=============================================================================
